---- MODULE Spec2Model ----
(***************************************************************************)
(* A model of pymeasure's Instrument session layer                         *)
(* (src/pymeasure/instruments/instrument.py) and of the digital-I/O pin    *)
(* helper of the Keithley 2602B driver                                     *)
(* (src/pymeasure/instruments/keithley/keithley2602B.py).                  *)
(*                                                                         *)
(* One session object is shared by a few threads.  Every call into the     *)
(* adapter (the transport) is one step of the calling thread.  Texts on    *)
(* the wire are sequences of characters, so that strip() and startswith()  *)
(* are computed and not assumed.  Time is counted in poll intervals        *)
(* (the 0.1 s of sleep(0.1)) and is kept per waiting thread as the time    *)
(* elapsed since the wait computed its deadline.                           *)
(***************************************************************************)
EXTENDS Integers, Sequences, FiniteSets, TLC

VARIABLES
    SCPI,                   \* self.SCPI (includeSCPI)
    sess,                   \* "new" | "connected" | "failed": life of the session object
    communication_success,  \* self.communication_success
    locked,                 \* self._lock.locked()
    errq,                   \* device: replies its error queue will give to SYST:ERR?
    faults,                 \* device: error-queue entries produced by primitives so far
    pc,                     \* per thread: position in the code
    op,                     \* per thread: the public operation it is running
    cmd,                    \* per thread: the `command` argument of the transaction
    arg,                    \* per thread: the arguments of a property or attribute access
    holds,                  \* per thread: inside a `with self._lock:` block
    elapsed,                \* per thread: time() - (end - timeout) of the current wait
    late,                   \* per thread: *OPC? queries the current wait sent after `end`
    errors,                 \* per thread: local `errors` of _flush_errors
    seen,                   \* per thread: replies SYST:ERR? gave to the current drain
    resp,                   \* per thread: local `response`
    result,                 \* per thread: how its last call ended
    log,                    \* per thread: adapter calls of the current operation
    isShutdown,             \* self.isShutdown: "unset" until __init__ sets it
    special,                \* per instance: self._special_names, once it is set
    objdict,                \* per instance: its __dict__, for the names of interest
    klass,                  \* per class: its class attributes named like overrides
    snapshot,               \* history: per instance, the class attributes when it was constructed
    overrides,              \* history: per instance, the value last assigned to each name
    edits,                  \* attribute assignments made so far
    block                   \* the `with` block over the session: none, inside, left, failed

vars == <<SCPI, sess, communication_success, locked, errq, faults, pc, op, cmd, arg, holds,
          elapsed, late, errors, seen, resp, result, log,
          isShutdown, special, objdict, klass, snapshot, overrides, edits, block>>

\* the attribute state of the instances and classes
attrvars == <<special, objdict, klass, snapshot, overrides, edits>>

\* the state outside the transaction layer
objvars == <<isShutdown, attrvars, block>>

(***************************************************************************)
(* Bounds of the model.                                                    *)
(***************************************************************************)
TimeoutTicks == 1    \* the timeout of _wait_until_ready, in poll intervals
MaxQueryTicks == 0   \* longest an *OPC? query takes, in poll intervals
MaxOversleep == 0    \* longest sleep(0.1) oversleeps, in poll intervals
MaxFaults == 1       \* primitives after which the device queues errors
MaxStale == 0        \* error-queue entries present before construction

\* Two threads share the session; the first one constructs it.
Threads == {"t1", "t2"}
Main == "t1"

(***************************************************************************)
(* Text.                                                                   *)
(***************************************************************************)
Whitespace == {" ", "\n", "\r", "\t"}

RECURSIVE lstrip(_)
lstrip(s) == IF s # <<>> /\ Head(s) \in Whitespace THEN lstrip(Tail(s)) ELSE s

RECURSIVE rstrip(_)
rstrip(s) ==
    IF s # <<>> /\ s[Len(s)] \in Whitespace THEN rstrip(SubSeq(s, 1, Len(s) - 1)) ELSE s

strip(s) == rstrip(lstrip(s))

startswith(s, prefix) ==
    /\ Len(s) >= Len(prefix)
    /\ SubSeq(s, 1, Len(prefix)) = prefix

(***************************************************************************)
(* The device's side of the dialect: what it can answer.                   *)
(***************************************************************************)
OpcDone == <<"1", "\n">>
OpcBusy == <<"0", "\n">>
OpcOdd == <<"+", "1", "\n">>
OpcReplies == {OpcDone, OpcBusy, OpcOdd}

NoError == <<"+", "0", ",", "No error">>
Err113 == <<"-", "1", "1", "3", ",", "Undefined header">>
Err222 == <<"-", "2", "2", "2", ",", "Data out of range">>
ErrReplies == {NoError, Err113, Err222}

\* what one primitive can leave in the error queue: one error, two errors, or
\* (a scripted transport) a no-error line in front of an error
Bursts == {<<Err113>>, <<Err113, Err222>>, <<Err222, Err113>>, <<NoError, Err113>>}

id_starts_with == <<"K", "e", "i", "t", "h", "l", "e", "y">>
IdnGood == id_starts_with \o <<" ", "2", "6", "0", "2", "B", "\n">>
IdnBad == <<"\n">>
Data == <<"4", "2", "\n">>

RECURSIVE SeqsUpTo(_, _)
SeqsUpTo(S, n) ==
    IF n = 0 THEN {<<>>}
    ELSE LET shorter == SeqsUpTo(S, n - 1)
         IN shorter \cup {Append(q, x) : q \in {p \in shorter : Len(p) = n - 1}, x \in S}

(***************************************************************************)
(* Results of calls.  The kinds are the spec's names of the failures:      *)
(* Timeout is TimeoutError, CommunicationError is the RuntimeError of      *)
(* check_errors, UnsupportedDialect is NotImplementedError, TransportError *)
(* is whatever the adapter raises.                                         *)
(***************************************************************************)
Res(kind, detail) == [kind |-> kind, detail |-> detail]
Pending == Res("pending", <<>>)
Ok(detail) == Res("ok", detail)

TxOps == {"ask", "ask_nocheck", "write", "read", "values", "binary_values"}
\* an ask that ignores its check_for_errors argument
Checked_All(o) == TRUE

Checked(o) == o # "ask_nocheck"

(***************************************************************************)
(* complete (the property): *OPC? through ask_no_lock, stripped; "1" is    *)
(* True, "0" is False, anything else None.                                 *)
(***************************************************************************)
complete(reply) ==
    LET r == strip(reply)
    IN IF r = <<"1">> THEN "True" ELSE IF r = <<"0">> THEN "False" ELSE "None"

\* a loop condition `while self.complete is False`, which lets None through
Truthy_NotFalse(v) == v # "False"

\* `while not self.complete`: False and None are both falsy
Truthy(v) == v = "True"

\* a deadline `end = time()`, without the timeout
Expired_AtOnce(e) == e >= 0

\* `time() > end`, with end = (time() at the start of the wait) + timeout
Expired(e) == e > TimeoutTicks

(***************************************************************************)
(* The adapter calls of a thread's current operation, in order.  A run of  *)
(* *OPC? queries of one wait is one entry, which keeps whether the last    *)
(* reply made complete True; a run of SYST:ERR? queries is one entry; the  *)
(* entry of a primitive keeps whether the device took it without queueing  *)
(* an error; g tells whether the caller was inside `with self._lock`.      *)
(***************************************************************************)
Entry(t, k, r) == [k |-> k, g |-> holds[t], r |-> r]

Last(q) == q[Len(q)]

LoggedCall(t, k, r) == Append(log[t], Entry(t, k, r))

\* an *OPC? of the wait that thread t is in; fresh tells that the wait has just begun
LoggedPoll(t, r, fresh) ==
    IF fresh THEN Append(log[t], Entry(t, "opc", r))
    ELSE [log[t] EXCEPT ![Len(log[t])] = [@ EXCEPT !.r = r]]

\* where a thread goes when a call of its current operation ends outside the
\* lock, by return or by exception
AfterCall(t) ==
    IF holds[t] THEN "exit" ELSE IF op[t] = "init" THEN "init_done" ELSE "done"

NoLocals == [t \in Threads |-> <<>>]

(***************************************************************************)
(* Classes, instances and attribute names.  Specific derives from Generic, *)
(* which derives from Instrument.  The session of the transaction layer is *)
(* one instance of Specific; a second instance of Specific is followed     *)
(* for its attributes only.  An attribute name is the sequence of the      *)
(* words that its underscores separate, so that "_".join and the prefix    *)
(* "___" are computed.                                                     *)
(***************************************************************************)
Instances == {"i1", "i2"}
Session == "i1"

\* type(self).__mro__, without Instrument and object, which declare no command
mro == <<"Specific", "Generic">>
ClassNames == {mro[k] : k \in 1 .. Len(mro)}

fget_params_list ==
    << <<"get", "command">>, <<"values">>, <<"map", "values">>, <<"get", "process">>,
       <<"command", "process">> >>

fset_params_list ==
    << <<"set", "command">>, <<"validator">>, <<"values">>, <<"map", "values">>,
       <<"set", "process">>, <<"command", "process">> >>

\* set(self._fget_params_list + self._fset_params_list)
dynamic_params ==
    {fget_params_list[k] : k \in 1 .. Len(fget_params_list)}
        \cup {fset_params_list[k] : k \in 1 .. Len(fset_params_list)}

\* the words of a command's attribute name
Words(name) ==
    CASE name = "trigger_mode" -> <<"trigger", "mode">>
      [] OTHER -> <<name>>

\* "_".join([name, attr])
Key(name, field) == Words(name) \o field

\* Instrument.__reserved_prefix + name
Reserved(attr) == <<"", "", "">> \o attr

\* the commands each class declares with dynamic=True, and those it declares without
DynamicDeclared(cl) == IF cl = "Generic" THEN {"V"} ELSE {"level"}
PlainDeclared(cl) == IF cl = "Generic" THEN {"gain", "reading"} ELSE {}

\* the attribute names that are followed: <command>_<field> of three commands
AttrNames == {Key(c, f) : c \in {"V", "level", "gain"}, f \in dynamic_params}

\* a __dict__ is a function from the names it holds; d[name] = value is
NoAttrs == [n \in {} |-> 0]
Assigned(d, name, value) ==
    [n \in DOMAIN d \cup {name} |-> IF n = name THEN value ELSE d[n]]

\* the state when the classes are defined and no instance is made yet
InitWith(classes) ==
    /\ SCPI \in BOOLEAN
    /\ sess = "new"
    /\ communication_success = FALSE
    /\ locked = FALSE
    /\ errq \in SeqsUpTo(ErrReplies, MaxStale)
    /\ faults = 0
    /\ pc = [t \in Threads |-> "idle"]
    /\ op = [t \in Threads |-> "none"]
    /\ cmd = NoLocals
    /\ arg = NoLocals
    /\ holds = [t \in Threads |-> FALSE]
    /\ elapsed = [t \in Threads |-> 0]
    /\ late = [t \in Threads |-> 0]
    /\ errors = NoLocals
    /\ seen = NoLocals
    /\ resp = NoLocals
    /\ result = [t \in Threads |-> Pending]
    /\ log = NoLocals
    /\ isShutdown = "unset"
    /\ special = [i \in Instances |-> [has |-> FALSE, names |-> {}]]
    /\ objdict = [i \in Instances |-> NoAttrs]
    /\ klass = classes
    /\ snapshot = [i \in Instances |-> [cl \in ClassNames |-> NoAttrs]]
    /\ overrides = [i \in Instances |-> NoAttrs]
    /\ edits = 0
    /\ block = "none"

\* classes that define no attribute named like an override
Init == InitWith([cl \in ClassNames |-> NoAttrs])

\* the locals of the frames that a return or an exception has left are gone
Unwound(t) ==
    /\ cmd' = [cmd EXCEPT ![t] = <<>>]
    /\ arg' = [arg EXCEPT ![t] = <<>>]
    /\ elapsed' = [elapsed EXCEPT ![t] = 0]
    /\ late' = [late EXCEPT ![t] = 0]
    /\ errors' = [errors EXCEPT ![t] = <<>>]
    /\ seen' = [seen EXCEPT ![t] = <<>>]
    /\ resp' = [resp EXCEPT ![t] = <<>>]
    /\ log' = [log EXCEPT ![t] = <<>>]

\* nothing of a finished call is left
Dropped(t) ==
    /\ op' = [op EXCEPT ![t] = "none"]
    /\ cmd' = [cmd EXCEPT ![t] = <<>>]
    /\ arg' = [arg EXCEPT ![t] = <<>>]
    /\ elapsed' = [elapsed EXCEPT ![t] = 0]
    /\ late' = [late EXCEPT ![t] = 0]
    /\ errors' = [errors EXCEPT ![t] = <<>>]
    /\ seen' = [seen EXCEPT ![t] = <<>>]
    /\ resp' = [resp EXCEPT ![t] = <<>>]
    /\ result' = [result EXCEPT ![t] = Pending]
    /\ log' = [log EXCEPT ![t] = <<>>]

(***************************************************************************)
(* __init__: the lock is created, then _flush_errors() is called (outside  *)
(* any `with self._lock`), then get_id().                                  *)
(***************************************************************************)
Construct(t) ==
    /\ UNCHANGED objvars
    /\ t = Main
    /\ sess = "new"
    /\ pc[t] = "idle"
    /\ op' = [op EXCEPT ![t] = "init"]
    /\ UNCHANGED <<cmd, arg>>
    /\ IF SCPI
       THEN /\ pc' = [pc EXCEPT ![t] = "ready_post"]
            /\ UNCHANGED <<sess, result>>
       ELSE /\ result' = [result EXCEPT ![t] = Res("UnsupportedDialect", <<>>)]
            /\ sess' = "failed"
            /\ pc' = [pc EXCEPT ![t] = "done"]
    /\ UNCHANGED <<SCPI, communication_success, locked, errq, faults, holds, elapsed, late,
                   errors, seen, resp, log>>

(***************************************************************************)
(* _setup_special_names: the names <command>_<field> of the                *)
(* DynamicProperty attributes found in the classes of the MRO, and the     *)
(* copy of the class attributes with such a name into the instance, under  *)
(* the reserved prefix, class after class in MRO order.                    *)
(***************************************************************************)
special_names ==
    {Key(c, f) : c \in UNION {DynamicDeclared(mro[k]) : k \in 1 .. Len(mro)},
                 f \in dynamic_params}

\* setattr(self, prefix + attr, obj.__dict__[attr]) for the attributes of one class
CopiedFrom(cl, d) ==
    LET found == DOMAIN klass[cl] \cap special_names
    IN [key \in DOMAIN d \cup {Reserved(n) : n \in found} |->
           IF \E n \in found : key = Reserved(n)
           THEN klass[cl][CHOOSE n \in found : key = Reserved(n)]
           ELSE d[key]]

RECURSIVE CopiedUpTo(_, _)
CopiedUpTo(k, d) == IF k = 0 THEN d ELSE CopiedFrom(mro[k], CopiedUpTo(k - 1, d))

_setup_special_names(i) ==
    /\ special' = [special EXCEPT ![i] = [has |-> TRUE, names |-> special_names]]
    /\ objdict' = [objdict EXCEPT ![i] = CopiedUpTo(Len(mro), objdict[i])]
    /\ snapshot' = [snapshot EXCEPT ![i] = klass]

\* __init__ that gives up when the reply is not the expected one
Constructed_Strict(res) ==
    res.kind = "ok" /\ startswith(strip(res.detail), id_starts_with)

\* whether __init__ returns, given how its get_id() ended
Constructed(res) == res.kind = "ok"

\* the end of __init__: the reply of get_id() is compared with id_starts_with
InitFinish(t) ==
    /\ pc[t] = "init_done"
    /\ pc' = [pc EXCEPT ![t] = "idle"]
    /\ IF Constructed(result[t])
       THEN /\ communication_success' =
                  startswith(strip(result[t].detail), id_starts_with)
            /\ sess' = "connected"
            /\ isShutdown' = "False"
            /\ _setup_special_names(Session)
       ELSE /\ sess' = "failed"
            /\ UNCHANGED <<communication_success, isShutdown, special, objdict, snapshot>>
    /\ UNCHANGED <<klass, overrides, edits, block>>
    /\ Dropped(t)
    /\ UNCHANGED <<SCPI, locked, errq, faults, holds>>

PublicOps == TxOps \cup {"check_errors", "complete", "status", "assert_trigger"}

EntryPoint(o) ==
    CASE o \in TxOps \cup {"assert_trigger"} -> "acquire"
      [] o = "check_errors" -> "ready_post"
      [] o = "complete" -> "complete"
      [] o = "status" -> "status"

\* a thread calls a public operation of the constructed session
Call(t, o) ==
    /\ UNCHANGED objvars
    /\ sess = "connected"
    /\ pc[t] = "idle"
    /\ pc' = [pc EXCEPT ![t] = EntryPoint(o)]
    /\ op' = [op EXCEPT ![t] = o]
    /\ UNCHANGED <<cmd, arg>>
    /\ UNCHANGED <<SCPI, sess, communication_success, locked, errq, faults, holds,
                   elapsed, late, errors, seen, resp, result, log>>

\* the caller has its result (or its exception)
Return(t) ==
    /\ UNCHANGED objvars
    /\ pc[t] = "done"
    /\ sess = "connected"
    /\ pc' = [pc EXCEPT ![t] = "idle"]
    /\ Dropped(t)
    /\ UNCHANGED <<SCPI, sess, communication_success, locked, errq, faults, holds>>

\* a lock that does not exclude
CanAcquire_Always == TRUE

\* `with self._lock:` is entered when the lock is free
CanAcquire == ~locked

Acquire(t) ==
    /\ UNCHANGED objvars
    /\ pc[t] = "acquire"
    /\ CanAcquire
    /\ locked' = TRUE
    /\ holds' = [holds EXCEPT ![t] = TRUE]
    /\ pc' = [pc EXCEPT ![t] = IF Checked(op[t]) THEN "ready_pre" ELSE "prim"]
    /\ UNCHANGED <<SCPI, sess, communication_success, errq, faults, op, cmd, arg, elapsed, late, errors,
                   seen, resp, result, log>>

\* acquire() and release() without try/finally: an exception keeps the lock
LockAfterExit_OnReturnOnly(res) == res.kind # "ok"

\* `with self._lock:` is left, by return or by exception: the lock is released
LockAfterExit(res) == FALSE

\* get_id and options return self.ask(...).strip()
AfterAsk(o, res) ==
    IF o \in {"get_id", "options"} /\ res.kind = "ok" THEN Ok(strip(res.detail)) ELSE res

Exit(t) ==
    /\ UNCHANGED objvars
    /\ pc[t] = "exit"
    /\ holds[t]
    /\ locked' = LockAfterExit(result[t])
    /\ holds' = [holds EXCEPT ![t] = FALSE]
    /\ IF op[t] = "assert_trigger" /\ result[t].kind = "ok"
       THEN \* the pin's write has returned: its check_errors follows
            /\ pc' = [pc EXCEPT ![t] = "ready_post"]
            /\ result' = [result EXCEPT ![t] = Pending]
            /\ errors' = [errors EXCEPT ![t] = <<>>]
            /\ seen' = [seen EXCEPT ![t] = <<>>]
            /\ UNCHANGED <<op, cmd, arg, elapsed, late, resp, log>>
       ELSE IF op[t] = "fget" /\ result[t].kind = "ok"
       THEN \* self.values(...) has returned into fget, which has its vals
            /\ pc' = [pc EXCEPT ![t] = "decode"]
            /\ elapsed' = [elapsed EXCEPT ![t] = 0]
            /\ late' = [late EXCEPT ![t] = 0]
            /\ errors' = [errors EXCEPT ![t] = <<>>]
            /\ seen' = [seen EXCEPT ![t] = <<>>]
            /\ log' = [log EXCEPT ![t] = <<>>]
            /\ UNCHANGED <<op, cmd, arg, resp, result>>
       ELSE /\ pc' = [pc EXCEPT ![t] = IF op[t] = "init" THEN "init_done" ELSE "done"]
            /\ Unwound(t)
            /\ result' = [result EXCEPT ![t] = AfterAsk(op[t], result[t])]
            /\ UNCHANGED op
    /\ UNCHANGED <<SCPI, sess, communication_success, errq, faults>>

(***************************************************************************)
(* _wait_until_ready: one turn of the loop, that is one evaluation of      *)
(* `not self.complete` and, when it is not complete, of `time() > end`     *)
(* and the sleep.                                                          *)
(***************************************************************************)
Poll(t) ==
    /\ UNCHANGED objvars
    /\ pc[t] \in {"ready_pre", "ready_post"}
    /\ \E d \in 0 .. MaxQueryTicks, r \in OpcReplies :
          LET now == elapsed[t] + d
              c == complete(r)
              fresh == log[t] = <<>> \/ Last(log[t]).k # "opc"
              sent == late[t] + (IF Expired(elapsed[t]) THEN 1 ELSE 0)
          IN /\ log' = [log EXCEPT ![t] = LoggedPoll(t, c = "True", fresh)]
             /\ IF Truthy(c)
                THEN \* the wait is over, and its clock with it
                     /\ pc' = [pc EXCEPT ![t] = IF pc[t] = "ready_pre" THEN "prim" ELSE "drain"]
                     /\ elapsed' = [elapsed EXCEPT ![t] = 0]
                     /\ late' = [late EXCEPT ![t] = 0]
                     /\ UNCHANGED result
                ELSE IF Expired(now)
                THEN /\ pc' = [pc EXCEPT ![t] = AfterCall(t)]
                     /\ elapsed' = [elapsed EXCEPT ![t] = now]
                     /\ late' = [late EXCEPT ![t] = sent]
                     /\ result' = [result EXCEPT ![t] = Res("Timeout", <<>>)]
                ELSE \* sleep(0.1), and the loop's next turn
                     /\ \E over \in 0 .. MaxOversleep :
                           elapsed' = [elapsed EXCEPT ![t] = now + 1 + over]
                     /\ late' = [late EXCEPT ![t] = sent]
                     /\ UNCHANGED <<pc, result>>
    /\ UNCHANGED <<SCPI, sess, communication_success, locked, errq, faults, op, cmd, arg, holds,
                   errors, seen, resp>>

(***************************************************************************)
(* The transport primitive: adapter.ask / write / read / values /          *)
(* binary_values.  The device may put one entry into its error queue.      *)
(***************************************************************************)
\* what adapter.values can return to a property read: lists of parsed tokens
Tokens ==
    {<<[ty |-> "int", s |-> <<>>, n |-> 1]>>, <<[ty |-> "int", s |-> <<>>, n |-> 2]>>,
     <<[ty |-> "int", s |-> <<>>, n |-> 1], [ty |-> "int", s |-> <<>>, n |-> 0]>>}

Answers(o) == IF o \in {"init", "get_id"} THEN {IdnGood, IdnBad}
              ELSE IF o \in {"write", "assert_trigger", "fset", "clear", "reset"} THEN {<<>>}
              ELSE IF o = "fget" THEN Tokens
              ELSE {Data}

Primitive(t) ==
    /\ UNCHANGED objvars
    /\ pc[t] = "prim"
    /\ \E a \in Answers(op[t]) :
          /\ resp' = [resp EXCEPT ![t] = a]
          /\ IF Checked(op[t])
             THEN /\ pc' = [pc EXCEPT ![t] = "ready_post"]
                  /\ UNCHANGED result
             ELSE /\ pc' = [pc EXCEPT ![t] = AfterCall(t)]
                  /\ result' = [result EXCEPT ![t] = Ok(a)]
    /\ \/ UNCHANGED <<errq, faults>>
       \/ /\ faults < MaxFaults
          /\ faults' = faults + 1
          /\ \E b \in Bursts : errq' = errq \o b
    /\ log' = [log EXCEPT ![t] = LoggedCall(t, "prim", errq' = errq)]
    /\ UNCHANGED <<SCPI, sess, communication_success, locked, op, cmd, arg, holds, elapsed, late, errors,
                   seen>>

(***************************************************************************)
(* _flush_errors' loop, one SYST:ERR? per step, and, when it breaks, the   *)
(* `if errors:` of check_errors.  __init__ calls _flush_errors directly    *)
(* and drops the list.                                                     *)
(***************************************************************************)
IsSentinel(reply) == startswith(reply, <<"+", "0">>)

\* errors.insert(0, err) in place of errors.append(err)
Collect_Prepend(errs, reply) == <<reply>> \o errs

Collect(errs, reply) == Append(errs, reply)

\* check_errors without its `if errors: raise`
Verdict_Silent(errs, answer) == Ok(answer)

\* check_errors that reports what it found as a timeout
Verdict_Timeout(errs, answer) ==
    IF errs # <<>> THEN Res("Timeout", errs[1]) ELSE Ok(answer)

Verdict(errs, answer) ==
    IF errs # <<>> THEN Res("CommunicationError", errs[1]) ELSE Ok(answer)

ErrQuery(t) ==
    /\ UNCHANGED objvars
    /\ pc[t] = "drain"
    /\ LET reply == IF errq = <<>> THEN NoError ELSE Head(errq)
       IN /\ errq' = IF errq = <<>> THEN errq ELSE Tail(errq)
          /\ log' = [log EXCEPT ![t] =
                        IF Last(log[t]).k = "err" THEN log[t] ELSE LoggedCall(t, "err", TRUE)]
          /\ IF ~IsSentinel(reply)
             THEN /\ errors' = [errors EXCEPT ![t] = Collect(errors[t], reply)]
                  /\ seen' = [seen EXCEPT ![t] = Append(seen[t], reply)]
                  /\ UNCHANGED <<pc, result>>
             ELSE IF op[t] = "init" /\ ~holds[t]
             THEN \* __init__ drops the list and goes on with get_id()
                  /\ pc' = [pc EXCEPT ![t] = "acquire"]
                  /\ errors' = [errors EXCEPT ![t] = <<>>]
                  /\ seen' = [seen EXCEPT ![t] = <<>>]
                  /\ UNCHANGED result
             ELSE /\ pc' = [pc EXCEPT ![t] = AfterCall(t)]
                  /\ seen' = [seen EXCEPT ![t] = Append(seen[t], reply)]
                  /\ result' = [result EXCEPT ![t] = Verdict(errors[t], resp[t])]
                  /\ UNCHANGED errors
    /\ UNCHANGED <<SCPI, sess, communication_success, locked, faults, op, cmd, arg, holds, elapsed, late,
                   resp>>

\* any adapter call may fail in the transport
TransportFails(t) ==
    /\ UNCHANGED objvars
    /\ pc[t] \in {"ready_pre", "ready_post", "prim", "drain", "complete"}
    /\ pc' = [pc EXCEPT ![t] = AfterCall(t)]
    /\ result' = [result EXCEPT ![t] = Res("TransportError", <<>>)]
    /\ elapsed' = [elapsed EXCEPT ![t] = 0]
    /\ late' = [late EXCEPT ![t] = 0]
    /\ errors' = [errors EXCEPT ![t] = <<>>]
    /\ seen' = [seen EXCEPT ![t] = <<>>]
    /\ UNCHANGED <<SCPI, sess, communication_success, locked, errq, faults, op, cmd, arg, holds,
                   resp, log>>

\* the public property complete, read by a caller
CompleteQuery(t) ==
    /\ UNCHANGED objvars
    /\ pc[t] = "complete"
    /\ \E r \in OpcReplies :
          /\ log' = [log EXCEPT ![t] = LoggedPoll(t, complete(r) = "True", TRUE)]
          /\ result' = [result EXCEPT ![t] = Ok(<<complete(r)>>)]
    /\ pc' = [pc EXCEPT ![t] = "done"]
    /\ UNCHANGED <<SCPI, sess, communication_success, locked, errq, faults, op, cmd, arg, holds,
                   elapsed, late, errors, seen, resp>>

(***************************************************************************)
(* status (the property).  With communication_success false it calls       *)
(* get_id(check_for_errors=False); get_id's parameter is check_errs, so    *)
(* the call raises TypeError before get_id's body runs.                    *)
(***************************************************************************)
GetIdKeywords == {"check_errs"}

StatusOf(healthy, lockedNow) ==
    IF ~healthy
    THEN IF "check_for_errors" \in GetIdKeywords
         THEN Res("get_id", <<>>)
         ELSE Res("TypeError", <<"check_for_errors">>)
    ELSE IF lockedNow THEN Ok(<<"ok: busy">>) ELSE Ok(<<"ok: ON">>)

StatusProbe(t) ==
    /\ UNCHANGED objvars
    /\ pc[t] = "status"
    /\ result' = [result EXCEPT ![t] = StatusOf(communication_success, locked)]
    /\ pc' = [pc EXCEPT ![t] = "done"]
    /\ UNCHANGED <<SCPI, sess, communication_success, locked, errq, faults, op, cmd, arg, holds,
                   elapsed, late, errors, seen, resp, log>>

(***************************************************************************)
(* Python values of the command properties: strings (as sequences of text  *)
(* pieces) and integers, and the `values` collections (a dict keeps its    *)
(* items in insertion order).                                              *)
(***************************************************************************)
PyStr(x) == [ty |-> "str", s |-> x, n |-> 0]
PyInt(i) == [ty |-> "int", s |-> <<>>, n |-> i]

Dict(pairs) == [ty |-> "dict", items |-> pairs]
List(items) == [ty |-> "list", items |-> items]
Tuple(items) == [ty |-> "tuple", items |-> items]

Good(v) == [kind |-> "ok", val |-> v]
Raised(kind) == [kind |-> kind, val |-> <<>>]

\* `value in values`: the keys of a dict, the elements of a list or tuple
In(value, values) ==
    IF values.ty = "dict"
    THEN \E i \in 1 .. Len(values.items) : values.items[i][1] = value
    ELSE \E i \in 1 .. Len(values.items) : values.items[i] = value

\* values.index(value), which raises ValueError when the value is absent
index(values, value) ==
    LET hits == {i \in 1 .. Len(values.items) : values.items[i] = value}
    IN IF hits = {} THEN Raised("ValueNotFound")
       ELSE Good(PyInt((CHOOSE i \in hits : \A j \in hits : i <= j) - 1))

\* values[value] of a dict, which raises KeyError when the key is absent
getitem(values, key) ==
    LET hits == {i \in 1 .. Len(values.items) : values.items[i][1] = key}
    IN IF hits = {} THEN Raised("ValueNotFound")
       ELSE Good(values.items[CHOOSE i \in hits : TRUE][2])

(***************************************************************************)
(* Validators.  control's default is `lambda v, vs: v`.                    *)
(* strict_discrete_set comes from pymeasure.instruments.validators: it     *)
(* returns the value when it is in values and fails otherwise.             *)
(***************************************************************************)
default_validator(value, values) == Good(value)

strict_discrete_set(value, values) ==
    IF In(value, values) THEN Good(value) ELSE Raised("InvalidValue")

validate(validator, value, values) ==
    IF validator = "strict_discrete_set" THEN strict_discrete_set(value, values)
    ELSE default_validator(value, values)

\* the value-mapping branch of fset
map_encode(value, values, map_values) ==
    IF ~map_values THEN Good(value)
    ELSE IF values.ty \in {"list", "tuple", "range"} THEN index(values, value)
    ELSE IF values.ty = "dict" THEN getitem(values, value)
    ELSE Raised("ValueError")

Digits == <<"0", "1", "2", "3", "4", "5", "6", "7", "8", "9">>

RECURSIVE decimal(_)
decimal(n) ==
    IF n < 0 THEN <<"-">> \o decimal(0 - n)
    ELSE IF n < 10 THEN <<Digits[n + 1]>>
    ELSE decimal(n \div 10) \o <<Digits[(n % 10) + 1]>>

\* str(value)
str(value) == IF value.ty = "int" THEN decimal(value.n) ELSE value.s

\* `template % value` for a template that ends in one %d or %s
format(template, value) ==
    LET spec == template[Len(template)]
        text == SubSeq(template, 1, Len(template) - 1)
    IN IF spec = "%d"
       THEN IF value.ty = "int" THEN Good(text \o decimal(value.n)) ELSE Raised("TypeError")
       ELSE Good(text \o str(value))

(***************************************************************************)
(* Declared commands: what Instrument.control was called with.             *)
(* trigger_mode and stimulus are those of Keithley2600DigitalIOPin         *)
(* (pulse_width is left out: its validator, truncated_range, is defined    *)
(* outside these sources); the others use control's defaults.              *)
(***************************************************************************)
NoCommand == <<>>

trigger_mode_values ==
    Dict(<< <<PyStr(<<"TRIG_BYPASS">>), PyInt(0)>>, <<PyStr(<<"TRIG_FALLING">>), PyInt(1)>>,
            <<PyStr(<<"TRIG_RISING">>), PyInt(2)>>, <<PyStr(<<"TRIG_EITHER">>), PyInt(3)>>,
            <<PyStr(<<"TRIG_SYNCHRONOUSA">>), PyInt(4)>>, <<PyStr(<<"TRIG_SYNCHRONOUS">>), PyInt(5)>>,
            <<PyStr(<<"TRIG_SYNCHRONOUSM">>), PyInt(6)>>, <<PyStr(<<"TRIG_RISINGA">>), PyInt(7)>>,
            <<PyStr(<<"TRIG_RISINGM">>), PyInt(8)>> >>)

EventNames == <<"SOURCE_COMPLETE_EVENT_ID", "MEASURE_COMPLETE_EVENT_ID",
                "PULSE_COMPLETE_EVENT_ID", "SWEEP_COMPLETE_EVENT_ID", "IDLE_EVENT_ID">>

\* Keithley2602B._event_descriptions, as strings "smu<channel>.trigger.<event>"
event_descriptions ==
    [i \in 1 .. 10 |->
        PyStr(<<IF i <= 5 THEN "smua" ELSE "smub", ".trigger.", EventNames[((i - 1) % 5) + 1]>>)]

Control(get_command, set_command, validator, values, map_values) ==
    [get_command |-> get_command, set_command |-> set_command, validator |-> validator,
     values |-> values, map_values |-> map_values]

CommandNames == {"trigger_mode", "stimulus", "V", "level", "gain", "reading"}

Commands(name) ==
    CASE name = "trigger_mode" ->
            Control(<<"mode">>, <<"mode=", "%d">>, "strict_discrete_set",
                    trigger_mode_values, TRUE)
      [] name = "stimulus" ->
            Control(<<"stimulus">>, <<"stimulus=", "%s">>, "strict_discrete_set",
                    List(event_descriptions), FALSE)
      [] name = "V" ->
            Control(<<"V?">>, <<"V ", "%d">>, "default",
                    Dict(<< <<PyStr(<<"LOW">>), PyInt(0)>>, <<PyStr(<<"HIGH">>), PyInt(1)>> >>), TRUE)
      [] name = "level" ->
            Control(<<"L?">>, <<"L ", "%d">>, "default", List(<<PyInt(0), PyInt(1)>>), FALSE)
      [] name = "gain" ->
            Control(<<"G?">>, <<"G ", "%d">>, "strict_discrete_set",
                    Tuple(<<PyInt(1), PyInt(7)>>), TRUE)
      [] name = "reading" ->
            Control(<<"R?">>, NoCommand, "default", Tuple(<<>>), FALSE)

InputValues ==
    {PyStr(<<"TRIG_RISING">>), PyStr(<<"HIGH">>), PyStr(<<"MID">>), PyInt(1), PyInt(7), PyInt(12),
     PyStr(<<"smub", ".trigger.", "IDLE_EVENT_ID">>)}

(***************************************************************************)
(* The processors of a command are named functions: control's default      *)
(* `lambda v: v`, and, as values that an override can give them,           *)
(* `lambda v: -v` and `lambda c: "ch1:" + c`.                              *)
(***************************************************************************)
apply(process, x) ==
    CASE process = "identity" -> Good(x)
      [] process = "negate" ->
            IF x.ty = "int" THEN Good(PyInt(0 - x.n)) ELSE Raised("TypeError")
      [] process = "channel" -> Good(<<"ch1:">> \o x)

\* the class whose instances have the command: the session or the pin helper
Owner(name) == IF name \in {"trigger_mode", "stimulus"} THEN "pin" ELSE "session"

\* declared with dynamic=True: control returns a DynamicProperty
Dynamic(name) == \E k \in 1 .. Len(mro) : name \in DynamicDeclared(mro[k])

\* the defaults of fget's and fset's keyword parameters
Defaults(name) ==
    Commands(name) @@
        [get_process |-> "identity", set_process |-> "identity",
         command_process |-> "identity"]

(***************************************************************************)
(* Instrument.__setattr__ and __getattribute__.                            *)
(***************************************************************************)
IsSpecial(i, attr) == special[i].has /\ attr \in special[i].names

\* the name under which __setattr__ stores the value
StoredAs(i, attr) == IF IsSpecial(i, attr) THEN Reserved(attr) ELSE attr

\* a lookup that finds what any instance holds
Lookup_Shared(i, attr) ==
    LET holding == {j \in Instances : attr \in DOMAIN objdict[j]}
    IN IF holding = {} THEN Raised("AttributeError")
       ELSE Good(objdict[CHOOSE j \in holding : TRUE][attr])

\* object.__getattribute__: the instance __dict__, then the classes of the MRO
Lookup(i, attr) ==
    IF attr \in DOMAIN objdict[i] THEN Good(objdict[i][attr])
    ELSE LET having == {k \in 1 .. Len(mro) : attr \in DOMAIN klass[mro[k]]}
         IN IF having = {} THEN Raised("AttributeError")
            ELSE Good(klass[mro[CHOOSE k \in having : \A j \in having : k <= j]][attr])

\* a read that blocks no name
getattribute_Open(i, attr) == Lookup(i, attr)

getattribute(i, attr) ==
    IF IsSpecial(i, attr) THEN Raised("AttributeError") ELSE Lookup(i, attr)

\* hasattr(obj, name)
hasattr(i, attr) == getattribute(i, attr).kind = "ok"

(***************************************************************************)
(* DynamicProperty.__get__ and __set__: the keyword arguments they pass,   *)
(* over the defaults of fget and fset.  A property that is not dynamic is  *)
(* a plain property: fget and fset run with their defaults.                *)
(***************************************************************************)
\* no keyword argument is passed
Passed_Never(i, name, field, default) == default

\* the keyword argument is what the name <command>_<field> resolves to now
Passed_Live(i, name, field, default) ==
    LET live == Lookup(i, Key(name, field))
    IN IF Dynamic(name) /\ live.kind = "ok" THEN live.val ELSE default

Passed(i, name, field, default) ==
    LET attr_instance_name == Reserved(Key(name, field))
    IN IF Dynamic(name) /\ hasattr(i, attr_instance_name)
       THEN getattribute(i, attr_instance_name).val
       ELSE default

Effective(i, name) ==
    LET d == Defaults(name)
    IN [get_command |-> Passed(i, name, <<"get", "command">>, d.get_command),
        set_command |-> Passed(i, name, <<"set", "command">>, d.set_command),
        validator |-> Passed(i, name, <<"validator">>, d.validator),
        values |-> Passed(i, name, <<"values">>, d.values),
        map_values |-> Passed(i, name, <<"map", "values">>, d.map_values),
        get_process |-> Passed(i, name, <<"get", "process">>, d.get_process),
        set_process |-> Passed(i, name, <<"set", "process">>, d.set_process),
        command_process |-> Passed(i, name, <<"command", "process">>, d.command_process)]

(***************************************************************************)
(* Assignments to and reads of the attributes named <command>_<field>, by  *)
(* the thread that made the session.  The values assigned to a field are   *)
(* of the type of the field.                                               *)
(***************************************************************************)
MaxEdits == 2

OverrideMenu ==
    {<<"level", <<"values">>, List(<<PyInt(7)>>)>>,
     <<"level", <<"values">>, List(<<PyInt(1), PyInt(7)>>)>>,
     <<"level", <<"set", "command">>, NoCommand>>,
     <<"V", <<"map", "values">>, FALSE>>,
     <<"V", <<"get", "command">>, NoCommand>>,
     <<"gain", <<"values">>, Tuple(<<PyInt(7)>>)>>}

\* the attributes that are read: level_values and gain_values
ReadMenu == {e \in OverrideMenu : e[2] = <<"values">>}

\* the values given to level_values
LevelMenu == {e \in OverrideMenu : e[1] = "level" /\ e[2] = <<"values">>}

\* class bodies: no override; one in the derived class; one in the base class,
\* for the command it declares; one in each class for the same name
ClassBodies ==
    {[cl \in ClassNames |-> NoAttrs],
     [cl \in ClassNames |->
         IF cl = "Specific" THEN Assigned(NoAttrs, Key("level", <<"values">>), List(<<PyInt(7)>>))
         ELSE NoAttrs],
     [cl \in ClassNames |->
         IF cl = "Generic" THEN Assigned(NoAttrs, Key("V", <<"map", "values">>), FALSE)
         ELSE NoAttrs],
     [cl \in ClassNames |->
         Assigned(NoAttrs, Key("level", <<"values">>),
                  IF cl = "Specific" THEN List(<<PyInt(7)>>) ELSE List(<<PyInt(1), PyInt(7)>>))]}

InitDyn == \E classes \in ClassBodies : InitWith(classes)

\* the overrides that take a template away, and one that gives a validator
TemplateMenu ==
    {<<"level", <<"set", "command">>, NoCommand>>,
     <<"V", <<"get", "command">>, NoCommand>>,
     <<"level", <<"validator">>, "strict_discrete_set">>}

\* a class attribute is assigned: cl.<name>_<field> = value
ClassAssign(t, cl, name, field, value) ==
    /\ pc[t] = "idle"
    /\ edits < MaxEdits
    /\ edits' = edits + 1
    /\ klass' = [klass EXCEPT ![cl] = Assigned(@, Key(name, field), value)]
    /\ UNCHANGED <<isShutdown, special, objdict, snapshot, overrides, block>>
    /\ UNCHANGED <<SCPI, sess, communication_success, locked, errq, faults, pc, op, cmd, arg,
                   holds, elapsed, late, errors, seen, resp, result, log>>

\* a second instance of the class is made; of its __init__ the attribute part
\* is followed
ConstructSibling(t, i) ==
    /\ pc[t] = "idle"
    /\ i # Session
    /\ ~special[i].has
    /\ _setup_special_names(i)
    /\ UNCHANGED <<isShutdown, klass, overrides, edits, block>>
    /\ UNCHANGED <<SCPI, sess, communication_success, locked, errq, faults, pc, op, cmd, arg,
                   holds, elapsed, late, errors, seen, resp, result, log>>

\* instance.<name>_<field> = value on a constructed instance
FieldWrite(t, i, name, field, value) ==
    /\ pc[t] = "idle"
    /\ special[i].has
    /\ edits < MaxEdits
    /\ edits' = edits + 1
    /\ objdict' = [objdict EXCEPT ![i] = Assigned(@, StoredAs(i, Key(name, field)), value)]
    /\ overrides' = [overrides EXCEPT ![i] = Assigned(@, Key(name, field), value)]
    /\ UNCHANGED <<isShutdown, special, klass, snapshot, block>>
    /\ UNCHANGED <<SCPI, sess, communication_success, locked, errq, faults, pc, op, cmd, arg,
                   holds, elapsed, late, errors, seen, resp, result, log>>

\* instance.<name>_<field> is read on a constructed instance
AttrRead(t, i, name, field) ==
    /\ UNCHANGED objvars
    /\ sess = "connected"
    /\ pc[t] = "idle"
    /\ special[i].has
    /\ pc' = [pc EXCEPT ![t] = "done"]
    /\ op' = [op EXCEPT ![t] = "getattr"]
    /\ arg' = [arg EXCEPT ![t] = <<i, name, field>>]
    /\ LET out == getattribute(i, Key(name, field))
       IN result' = [result EXCEPT ![t] =
                        IF out.kind = "ok" THEN Ok(<<out.val>>) ELSE Res(out.kind, <<>>)]
    /\ UNCHANGED <<SCPI, sess, communication_success, locked, errq, faults, cmd, holds,
                   elapsed, late, errors, seen, resp, log>>

(***************************************************************************)
(* control's fset up to its self.write(...): the command text to write, or *)
(* the failure.                                                            *)
(***************************************************************************)
Validated(c, value) == validate(c.validator, value, c.values)

\* fset without its validator call
Encoded(c, value) ==
    LET p == apply(c.set_process, value)
    IN IF p.kind # "ok" THEN p
       ELSE LET m == map_encode(p.val, c.values, c.map_values)
            IN IF m.kind # "ok" THEN m
               ELSE format(apply(c.command_process, c.set_command).val, m.val)

fset_Unvalidated(c, value) ==
    IF c.set_command = NoCommand THEN Raised("UnsupportedOperation")
    ELSE Encoded(c, value)

\* the validator called before the template is looked at
fset_ValidateFirst(c, value) ==
    LET v == Validated(c, value)
    IN IF v.kind # "ok" THEN v
       ELSE IF c.set_command = NoCommand THEN Raised("UnsupportedOperation")
       ELSE Encoded(c, v.val)

fset(c, value) ==
    IF c.set_command = NoCommand THEN Raised("UnsupportedOperation")
    ELSE LET v == Validated(c, value)
         IN IF v.kind # "ok" THEN v ELSE Encoded(c, v.val)

(***************************************************************************)
(* control's fget after its self.values(...): the value it returns for the *)
(* list vals, or the failure.                                              *)
(***************************************************************************)
\* values[int(value)] of a list, tuple or range
item(values, value) ==
    IF value.ty # "int" THEN Raised("ValueError")
    ELSE LET n == value.n
             len == Len(values.items)
         IN IF n >= 0 /\ n < len THEN Good(values.items[n + 1])
            ELSE IF n < 0 /\ n >= 0 - len THEN Good(values.items[len + n + 1])
            ELSE Raised("IndexError")

\* the first key k of the dict with values[k] == value
key_of(values, value) ==
    LET hits == {i \in 1 .. Len(values.items) : values.items[i][2] = value}
    IN IF hits = {} THEN Raised("ValueNotFound")
       ELSE Good(values.items[CHOOSE i \in hits : \A j \in hits : i <= j][1])

map_decode(value, values, map_values) ==
    IF ~map_values THEN Good(value)
    ELSE IF values.ty \in {"list", "tuple", "range"} THEN item(values, value)
    ELSE IF values.ty = "dict" THEN key_of(values, value)
    ELSE Raised("ValueError")

decode(c, vals) ==
    IF Len(vals) = 1
    THEN LET p == apply(c.get_process, vals[1])
         IN IF p.kind # "ok" THEN p
            ELSE LET m == map_decode(p.val, c.values, c.map_values)
                 IN IF m.kind # "ok" THEN m ELSE Good(<<m.val>>)
    ELSE IF c.get_process = "identity" THEN Good(vals) ELSE Raised("TypeError")

\* fget up to its self.values(...): the command to ask, or the failure; the
\* pin helper, on which control is used as well, has no method `values`
fget(c, owner) ==
    IF c.get_command = NoCommand THEN Raised("UnsupportedOperation")
    ELSE IF owner = "pin" THEN Raised("AttributeError")
    ELSE apply(c.command_process, c.get_command)

\* a thread reads a command property
FgetCall(t, name) ==
    /\ UNCHANGED objvars
    /\ sess = "connected"
    /\ pc[t] = "idle"
    /\ op' = [op EXCEPT ![t] = "fget"]
    /\ arg' = [arg EXCEPT ![t] = <<name, Effective(Session, name)>>]
    /\ LET out == fget(Effective(Session, name), Owner(name))
       IN IF out.kind = "ok"
          THEN \* self.values(command)
               /\ pc' = [pc EXCEPT ![t] = "acquire"]
               /\ cmd' = [cmd EXCEPT ![t] = out.val]
               /\ UNCHANGED result
          ELSE /\ pc' = [pc EXCEPT ![t] = "done"]
               /\ result' = [result EXCEPT ![t] = Res(out.kind, <<>>)]
               /\ UNCHANGED cmd
    /\ UNCHANGED <<SCPI, sess, communication_success, locked, errq, faults, holds,
                   elapsed, late, errors, seen, resp, log>>

\* fget goes on with the list that self.values(...) returned
FgetDecode(t) ==
    /\ UNCHANGED objvars
    /\ pc[t] = "decode"
    /\ pc' = [pc EXCEPT ![t] = "done"]
    /\ LET out == decode(arg[t][2], resp[t])
       IN result' = [result EXCEPT ![t] =
                        IF out.kind = "ok" THEN Ok(out.val) ELSE Res(out.kind, <<>>)]
    /\ UNCHANGED <<SCPI, sess, communication_success, locked, errq, faults, op, cmd, arg,
                   holds, elapsed, late, errors, seen, resp, log>>

\* a thread assigns to a command property of the constructed session
FsetCall(t, name, value) ==
    /\ UNCHANGED objvars
    /\ sess = "connected"
    /\ pc[t] = "idle"
    /\ op' = [op EXCEPT ![t] = "fset"]
    /\ arg' = [arg EXCEPT ![t] = <<name, value>>]
    /\ LET out == fset(Effective(Session, name), value)
       IN IF out.kind = "ok"
          THEN \* self.write(command)
               /\ pc' = [pc EXCEPT ![t] = "acquire"]
               /\ cmd' = [cmd EXCEPT ![t] = out.val]
               /\ UNCHANGED result
          ELSE /\ pc' = [pc EXCEPT ![t] = "done"]
               /\ result' = [result EXCEPT ![t] = Res(out.kind, <<>>)]
               /\ UNCHANGED cmd
    /\ UNCHANGED <<SCPI, sess, communication_success, locked, errq, faults, holds,
                   elapsed, late, errors, seen, resp, log>>

Next ==
    \E t \in Threads :
        \/ Construct(t)
        \/ InitFinish(t)
        \/ \E o \in PublicOps : Call(t, o)
        \/ Return(t)
        \/ Acquire(t)
        \/ Exit(t)
        \/ Poll(t)
        \/ Primitive(t)
        \/ ErrQuery(t)
        \/ TransportFails(t)
        \/ CompleteQuery(t)
        \/ StatusProbe(t)

Spec == Init /\ [][Next]_vars

(***************************************************************************)
(* Progress.  A thread that is inside a call goes on running: the adapter  *)
(* answers (or fails), sleep returns, the `with` block is left.  A thread  *)
(* blocked in `with self._lock:` gets the lock if it is free again and     *)
(* again.  Nothing obliges a caller to make a call or to come back from    *)
(* one.                                                                    *)
(***************************************************************************)
FairOps == {"write", "ask", "ask_nocheck"}

NextFair ==
    \E t \in Threads :
        \/ Construct(t)
        \/ InitFinish(t)
        \/ \E o \in FairOps : Call(t, o)
        \/ Return(t)
        \/ Acquire(t)
        \/ Exit(t)
        \/ Poll(t)
        \/ Primitive(t)
        \/ ErrQuery(t)
        \/ TransportFails(t)

\* the steps of a call that is under way and has the lock or needs none
Runs(t) ==
    InitFinish(t) \/ Exit(t) \/ Poll(t) \/ Primitive(t) \/ ErrQuery(t) \/ TransportFails(t)

SpecFair ==
    /\ Init
    /\ [][NextFair]_vars
    /\ \A t \in Threads : WF_vars(Runs(t)) /\ SF_vars(Acquire(t))

(***************************************************************************)
(* The command properties, written by the thread that made the session.    *)
(***************************************************************************)
NextCmd ==
    \E t \in {Main} :
        \/ Construct(t)
        \/ InitFinish(t)
        \/ \E name \in CommandNames, value \in InputValues : FsetCall(t, name, value)
        \/ \E name \in CommandNames : FgetCall(t, name)
        \/ FgetDecode(t)
        \/ \E e \in TemplateMenu : FieldWrite(t, Session, e[1], e[2], e[3])
        \/ Return(t)
        \/ Acquire(t)
        \/ Exit(t)
        \/ Poll(t)
        \/ Primitive(t)
        \/ ErrQuery(t)
        \/ TransportFails(t)

SpecCmd == Init /\ [][NextCmd]_vars

(***************************************************************************)
(* The base vocabulary, shutdown and the `with` block, used by the thread  *)
(* that made the session.                                                  *)
(***************************************************************************)
BaseOps == {"get_id", "complete", "options", "clear", "reset"}

\* every family speaks the dialect
Supported_Always(scpi) == TRUE

\* `if self.SCPI:` of the base vocabulary
Supported(scpi) == scpi

\* the object has SCPI, adapter and _lock: __init__ has returned, or it has
\* raised in its _flush_errors() because SCPI is false and the caller kept
\* the object
Usable(t) ==
    \/ sess = "connected" /\ pc[t] = "idle"
    \/ sess = "failed" /\ ~SCPI /\ pc[t] = "done"

BaseCall(t, o) ==
    /\ UNCHANGED objvars
    /\ Usable(t)
    /\ op' = [op EXCEPT ![t] = o]
    /\ IF Supported(SCPI)
       THEN \* self.ask(...), self.write(...) or self.ask_no_lock("*OPC?")
            /\ pc' = [pc EXCEPT ![t] = IF o = "complete" THEN "complete" ELSE "acquire"]
            /\ result' = [result EXCEPT ![t] = Pending]
       ELSE /\ pc' = [pc EXCEPT ![t] = "done"]
            /\ result' = [result EXCEPT ![t] = Res("UnsupportedDialect", <<>>)]
    /\ UNCHANGED <<SCPI, sess, communication_success, locked, errq, faults, cmd, arg, holds,
                   elapsed, late, errors, seen, resp, log>>

\* a shutdown that flips the flag
shutdown_Toggle(flag) == IF flag = "True" THEN "False" ELSE "True"

\* shutdown: self.isShutdown = True
shutdown(flag) == "True"

Shutdown(t) ==
    /\ sess = "connected"
    /\ pc[t] = "idle"
    /\ isShutdown' = shutdown(isShutdown)
    /\ UNCHANGED <<attrvars, block>>
    /\ UNCHANGED <<SCPI, sess, communication_success, locked, errq, faults, pc, op, cmd, arg,
                   holds, elapsed, late, errors, seen, resp, result, log>>

\* `with session:` is entered; __enter__ returns self
EnterBlock(t) ==
    /\ sess = "connected"
    /\ pc[t] = "idle"
    /\ block = "none"
    /\ block' = "inside"
    /\ UNCHANGED <<isShutdown, attrvars>>
    /\ UNCHANGED <<SCPI, sess, communication_success, locked, errq, faults, pc, op, cmd, arg,
                   holds, elapsed, late, errors, seen, resp, result, log>>

Failures ==
    {"Timeout", "CommunicationError", "TransportError", "UnsupportedOperation",
     "InvalidValue", "TypeError"}

\* an __exit__ that shuts down only when the block ended normally
__exit___OnSuccess(exc, flag) == IF exc THEN flag ELSE shutdown(flag)

\* __exit__(exc_type, exc_val, exc_tb): self.shutdown()
__exit__(exc, flag) == shutdown(flag)

\* the block is left: at its end, or by the exception of a call made in it
LeaveBlock(t) ==
    /\ block = "inside"
    /\ \/ /\ pc[t] = "idle"
          /\ block' = "left"
          /\ isShutdown' = __exit__(FALSE, isShutdown)
       \/ /\ pc[t] = "done" /\ result[t].kind \in Failures
          /\ block' = "failed"
          /\ isShutdown' = __exit__(TRUE, isShutdown)
    /\ UNCHANGED attrvars
    /\ UNCHANGED <<SCPI, sess, communication_success, locked, errq, faults, pc, op, cmd, arg,
                   holds, elapsed, late, errors, seen, resp, result, log>>

LifeOps == {"write", "ask", "status"}

NextLife ==
    \E t \in {Main} :
        \/ Construct(t)
        \/ InitFinish(t)
        \/ \E o \in LifeOps : Call(t, o)
        \/ \E o \in BaseOps : BaseCall(t, o)
        \/ \E e \in LevelMenu : FieldWrite(t, Session, e[1], e[2], e[3])
        \/ Shutdown(t)
        \/ EnterBlock(t)
        \/ LeaveBlock(t)
        \/ Return(t)
        \/ Acquire(t)
        \/ Exit(t)
        \/ Poll(t)
        \/ Primitive(t)
        \/ ErrQuery(t)
        \/ TransportFails(t)
        \/ CompleteQuery(t)
        \/ StatusProbe(t)

SpecLife == Init /\ [][NextLife]_vars

(***************************************************************************)
(* The attributes that configure the commands: two instances of one class, *)
(* class attributes assigned before and after the instances are made.      *)
(***************************************************************************)
NextDyn ==
    \E t \in {Main} :
        \/ Construct(t)
        \/ InitFinish(t)
        \/ \E i \in Instances : ConstructSibling(t, i)
        \/ \E cl \in ClassNames, e \in LevelMenu : ClassAssign(t, cl, e[1], e[2], e[3])
        \/ \E i \in Instances, e \in OverrideMenu : FieldWrite(t, i, e[1], e[2], e[3])
        \/ \E i \in Instances, e \in ReadMenu : AttrRead(t, i, e[1], e[2])
        \/ Return(t)
        \/ Acquire(t)
        \/ Exit(t)
        \/ Poll(t)
        \/ Primitive(t)
        \/ ErrQuery(t)
        \/ TransportFails(t)

SpecDyn == InitDyn /\ [][NextDyn]_vars

(***************************************************************************)
(* Properties.                                                             *)
(***************************************************************************)
\* inside a transaction: between the acquisition and the release of the lock
InTransaction(t) == holds[t]

\* the transactions that check for errors
CheckedTx == {o \in TxOps : Checked(o)} \cup {"fset"}

Kinds(q) == [i \in 1 .. Len(q) |-> q[i].k]

IsPrefix(p, q) == Len(p) <= Len(q) /\ SubSeq(q, 1, Len(p)) = p

\* C1: the transactions on one session are mutually exclusive: two threads are
\* never both between the acquisition and the release of the lock, so the
\* adapter calls of a transaction are made while no other thread is in one.
C1_MutualExclusion ==
    \A t, u \in Threads :
        InTransaction(t) /\ InTransaction(u) => t = u

\* one thread is in its transaction while the other waits to enter its own
C1_Witness ==
    \E t, u \in Threads :
        /\ t # u
        /\ InTransaction(t) /\ op[t] \in TxOps /\ pc[t] = "prim"
        /\ pc[u] = "acquire" /\ op[u] \in TxOps

\* C2: every adapter call on the session (primitive, *OPC?, SYST:ERR?) is made
\* by a thread that holds the lock, whichever operation it is made for.
C2_TransportUnderGate ==
    \A t \in Threads :
        \A i \in 1 .. Len(log[t]) : log[t][i].g

\* C3: the lock is released on every way out of a transaction: once ask, write,
\* read, values or binary_values has ended (by return, Timeout,
\* CommunicationError or a transport failure) its thread no longer holds the
\* lock, and the lock is taken only while some thread is inside a transaction,
\* so that a later transaction can acquire it.
C3_GateReleased ==
    /\ locked <=> \E t \in Threads : InTransaction(t)
    /\ \A t \in Threads :
          pc[t] \in {"idle", "acquire", "done", "init_done"} => ~InTransaction(t)

\* two transactions have ended, one by Timeout and one by CommunicationError,
\* and the lock is free
C3_Witness ==
    \E t, u \in Threads :
        /\ pc[t] = "done" /\ op[t] \in TxOps /\ result[t].kind = "Timeout"
        /\ pc[u] = "done" /\ op[u] \in TxOps /\ result[u].kind = "CommunicationError"
        /\ ~locked

\* C4: an error-checked transaction makes its adapter calls under the lock and
\* in the order readiness wait, one primitive, error drain (the drain itself
\* begins with a readiness wait of its own); the primitive is sent only after
\* an *OPC? has answered "1"; a transaction that got as far as its verdict has
\* made all of them, the primitive exactly once.
C4_Order ==
    \A t \in Threads :
        op[t] \in CheckedTx =>
            /\ \A i \in 1 .. Len(log[t]) : log[t][i].g
            /\ IsPrefix(Kinds(log[t]), <<"opc", "prim", "opc", "err">>)
            /\ Len(log[t]) >= 2 => log[t][1].r
            /\ Len(log[t]) >= 4 => log[t][3].r
            /\ pc[t] = "prim" => Len(log[t]) = 1 /\ log[t][1].r
            /\ (pc[t] = "exit" /\ result[t].kind \in {"ok", "CommunicationError"}) =>
                  Kinds(log[t]) = <<"opc", "prim", "opc", "err">>

\* an error-checked transaction has run to its end
C4_Witness ==
    \E t \in Threads :
        /\ op[t] \in CheckedTx /\ pc[t] = "exit" /\ result[t].kind = "ok"
        /\ Kinds(log[t]) = <<"opc", "prim", "opc", "err">>

\* the latest a readiness wait can notice that its deadline has passed
LatestTimeout == TimeoutTicks + 1 + MaxOversleep + MaxQueryTicks

\* a readiness wait of thread t has just raised TimeoutError
TimedOut(t) == result[t].kind = "Timeout" /\ log[t] # <<>>

\* C5: when no *OPC? of a readiness wait answers "1", the wait ends with
\* Timeout, not before the timeout has elapsed, and at most one sleep and one
\* query after it; no wait goes on polling beyond that.
C5_TimeoutBounds ==
    \A t \in Threads :
        /\ TimedOut(t) =>
              /\ elapsed[t] >= TimeoutTicks
              /\ elapsed[t] <= LatestTimeout
              /\ late[t] <= 1
        /\ pc[t] \in {"ready_pre", "ready_post"} =>
              /\ elapsed[t] <= TimeoutTicks + 1 + MaxOversleep
              /\ late[t] = 0

\* a wait has timed out as late as it can
C5_Witness ==
    \E t \in Threads :
        /\ TimedOut(t) /\ op[t] \in TxOps /\ pc[t] = "exit"
        /\ elapsed[t] = LatestTimeout /\ late[t] = 1

\* the reply is the no-error line of the device
PlusZero(reply) == Len(reply) >= 2 /\ reply[1] = "+" /\ reply[2] = "0"

\* the check of thread t has just given its verdict
Checked_Ended(t) ==
    /\ \/ pc[t] = "exit" /\ op[t] \in CheckedTx \cup {"assert_trigger"}
       \/ pc[t] = "done" /\ op[t] \in {"check_errors", "assert_trigger"} /\ log[t] # <<>>
    /\ result[t].kind \in {"ok", "CommunicationError"}

\* C6: the drain asks SYST:ERR? until the first reply that begins with +0 and
\* returns the replies before it in the device's order; the check fails with
\* CommunicationError exactly when there is one, and carries the first.
C6_Drain ==
    \A t \in Threads :
        /\ pc[t] = "drain" =>
              /\ \A i \in 1 .. Len(seen[t]) : ~PlusZero(seen[t][i])
              /\ errors[t] = seen[t]
        /\ Checked_Ended(t) =>
              /\ seen[t] # <<>>
              /\ PlusZero(Last(seen[t]))
              /\ \A i \in 1 .. Len(seen[t]) - 1 : ~PlusZero(seen[t][i])
              /\ errors[t] = SubSeq(seen[t], 1, Len(seen[t]) - 1)
              /\ result[t].kind = "CommunicationError" <=> errors[t] # <<>>
              /\ result[t].kind = "CommunicationError" => result[t].detail = seen[t][1]

\* a drain has returned two errors, in the order the device gave them
C6_Witness ==
    \E t \in Threads :
        /\ Checked_Ended(t) /\ op[t] \in TxOps
        /\ errors[t] = <<Err113, Err222>>
        /\ result[t] = Res("CommunicationError", Err113)

\* C7, as stated: if SYST:ERR? answered "+0, No error" once and would answer
\* "-113, Undefined header" to one more query, the transaction fails with
\* CommunicationError carrying the fault.
C7_FaultBehindSentinelReported ==
    \A t \in Threads :
        /\ Checked_Ended(t)
        /\ seen[t] = <<NoError>>
        /\ errq # <<>> /\ Head(errq) = Err113
        => result[t] = Res("CommunicationError", Err113)

\* C7, amended: a fault answered before the no-error line fails the
\* transaction with CommunicationError carrying that fault; when the no-error
\* line is answered first the drain stops there, the transaction succeeds and
\* the fault stays in the device's queue.
C7_FaultBeforeSentinelReported ==
    \A t \in Threads :
        Checked_Ended(t) =>
            /\ (seen[t] # <<>> /\ seen[t][1] = Err113) =>
                  result[t] = Res("CommunicationError", Err113)
            /\ seen[t] = <<NoError>> => result[t].kind = "ok"

\* the no-error line came first and the fault is still queued
C7_Witness ==
    \E t \in Threads :
        /\ Checked_Ended(t) /\ op[t] \in TxOps
        /\ seen[t] = <<NoError>> /\ result[t].kind = "ok"
        /\ errq # <<>> /\ Head(errq) = Err113

\* C8: a status read made while another thread is inside a transaction gives
\* "ok: busy", and one made while no thread holds the lock gives "ok: ON".
C8_BusyThenReady ==
    \A t \in Threads :
        pc[t] = "status" =>
            StatusOf(communication_success, locked) =
                IF \E u \in Threads \ {t} : InTransaction(u)
                THEN Ok(<<"ok: busy">>) ELSE Ok(<<"ok: ON">>)

StatusValues ==
    {<<"ok: busy">>, <<"ok: ON">>, <<"warning: Cannot communicate with device">>}

\* C9: a status read never waits for the lock and returns one of busy, ready
\* and degraded, whatever the health of the session and whoever holds the lock.
C9_StatusReturns ==
    \A t \in Threads :
        op[t] = "status" =>
            /\ pc[t] \in {"status", "done"}
            /\ pc[t] = "done" => result[t].kind = "ok" /\ result[t].detail \in StatusValues

\* the command and the value of the property write thread t is in
Written(t) == [c |-> Commands(arg[t][1]), value |-> arg[t][2]]

\* the write was refused before anything was sent
Refused(t) ==
    /\ pc[t] = "done"
    /\ result[t].kind = "InvalidValue"
    /\ log[t] = <<>>
    /\ ~holds[t]

MappedDomain(values) ==
    IF values.ty = "dict" THEN {values.items[i][1] : i \in 1 .. Len(values.items)}
    ELSE {values.items[i] : i \in 1 .. Len(values.items)}

\* no two values of the mapping have the same wire code
Bijective(values) ==
    \A v, w \in MappedDomain(values) :
        map_encode(v, values, TRUE) = map_encode(w, values, TRUE) => v = w

\* a finished read of a mapped command that has a read template
MappedRead(t) ==
    /\ op[t] = "fget" /\ pc[t] = "done" /\ arg[t] # <<>>
    /\ arg[t][2].map_values
    /\ arg[t][2].get_command # NoCommand
    /\ Bijective(arg[t][2].values)

\* C11: a read of a command with a bijective value mapping asks the device,
\* and when the single token of the reply is the wire code of a value v of the
\* mapping, the read returns v (the value that a write puts on the wire as
\* that code).
C11_MappedRoundTrip ==
    \A t \in Threads :
        MappedRead(t) =>
            /\ resp[t] # <<>>
            /\ \A v \in MappedDomain(arg[t][2].values) :
                   /\ Len(resp[t]) = 1
                   /\ Encoded(arg[t][2], v) = format(arg[t][2].set_command, resp[t][1])
                   => result[t] = Ok(<<v>>)

\* the round trip on a command of the session: the token 1 read back as HIGH
C11_SessionRoundTrip ==
    \E t \in Threads :
        /\ MappedRead(t) /\ arg[t][1] = "V"
        /\ resp[t] = <<PyInt(1)>>
        /\ result[t] = Ok(<<PyStr(<<"HIGH">>)>>)

\* the commands declared with dynamic=True in the classes of the MRO
Overridable == {name \in CommandNames : Dynamic(name)}

\* one field of a configuration, named as the parameter lists name it
FieldOf(c, field) ==
    CASE field = <<"get", "command">> -> c.get_command
      [] field = <<"set", "command">> -> c.set_command
      [] field = <<"validator">> -> c.validator
      [] field = <<"values">> -> c.values
      [] field = <<"map", "values">> -> c.map_values
      [] field = <<"get", "process">> -> c.get_process
      [] field = <<"set", "process">> -> c.set_process
      [] field = <<"command", "process">> -> c.command_process

\* the values the classes of the instance gave to a name when it was constructed
ClassLevel(i, n) ==
    {snapshot[i][cl][n] : cl \in {k \in ClassNames : n \in DOMAIN snapshot[i][k]}}

\* C12: on a constructed instance each field of each overridable command is
\* the value last assigned to <command>_<field> on the instance if there is
\* one, otherwise a class-level value of <command>_<field> at construction
\* if there is one, otherwise the default of the declaration.
C12_Precedence ==
    \A i \in Instances, name \in Overridable :
        special[i].has =>
            LET c == Effective(i, name)
            IN \A field \in dynamic_params :
                   LET n == Key(name, field)
                       used == FieldOf(c, field)
                   IN IF n \in DOMAIN overrides[i] THEN used = overrides[i][n]
                      ELSE IF ClassLevel(i, n) # {} THEN used \in ClassLevel(i, n)
                      ELSE used = FieldOf(Defaults(name), field)

\* an instance override over a different class-level value, next to an
\* instance of the same class that uses the class-level value
C12_Witness ==
    \E i, j \in Instances :
        LET n == Key("level", <<"values">>)
        IN /\ special[i].has /\ special[j].has
           /\ n \in DOMAIN overrides[i] /\ n \notin DOMAIN overrides[j]
           /\ ClassLevel(i, n) # {} /\ ClassLevel(j, n) # {}
           /\ overrides[i][n] \notin ClassLevel(i, n)
           /\ Effective(i, "level").values = overrides[i][n]
           /\ Effective(j, "level").values \in ClassLevel(j, n)

\* the step assigns <name>_<field>, for some field, on instance i
OverrideWritten(i, name) ==
    \E field \in dynamic_params :
        LET n == Key(name, field)
        IN /\ n \in DOMAIN overrides'[i]
           /\ n \in DOMAIN overrides[i] => overrides'[i][n] # overrides[i][n]

\* the step changes the configuration that instance i uses for a command; the
\* configuration is read from the attribute state
Reconfigured(i, name) ==
    /\ attrvars' # attrvars
    /\ Effective(i, name)' # Effective(i, name)

\* C13: an assignment of an override on an instance leaves the attributes
\* of the classes as they are, and the configuration that a constructed
\* instance uses for a command changes only in a step that assigns an
\* override of that command on that instance.
C13_Frame ==
    [][/\ overrides' # overrides => klass' = klass
       /\ \A i \in Instances, name \in CommandNames :
              special[i].has /\ Reconfigured(i, name) => OverrideWritten(i, name)]_vars

\* level_values was assigned on one instance: its level uses the value, its V
\* and the other instance's level and V are as declared
C13_Witness ==
    \E i, j \in Instances :
        LET n == Key("level", <<"values">>)
        IN /\ i # j /\ special[i].has /\ special[j].has
           /\ klass = [cl \in ClassNames |-> NoAttrs]
           /\ DOMAIN overrides[i] = {n} /\ overrides[j] = NoAttrs
           /\ Effective(i, "level").values = overrides[i][n]
           /\ Effective(i, "level") # Defaults("level")
           /\ Effective(i, "V") = Defaults("V")
           /\ Effective(j, "level") = Defaults("level")
           /\ Effective(j, "V") = Defaults("V")

\* a finished read of instance.<name>_<field>
FieldRead(t) == op[t] = "getattr" /\ pc[t] = "done"

\* C14: on a constructed instance the names <command>_<field> of the
\* overridable commands, declared in the class or inherited, are the special
\* names; a value assigned to one is kept for the descriptor, and a read of
\* one fails whether or not it was assigned; the names of a command that is
\* not overridable are not special: they read as what was assigned.
C14_Namespace ==
    /\ \A i \in Instances :
           special[i].has =>
               /\ special[i].names = {Key(c, f) : c \in Overridable, f \in dynamic_params}
               /\ \A n \in DOMAIN overrides[i] :
                      n \in special[i].names
                      => Lookup(i, Reserved(n)) = Good(overrides[i][n])
    /\ \A t \in Threads :
           FieldRead(t) =>
               LET i == arg[t][1]
                   n == Key(arg[t][2], arg[t][3])
               IN IF arg[t][2] \in Overridable
                  THEN result[t].kind = "AttributeError"
                  ELSE IF n \in DOMAIN overrides[i]
                  THEN result[t] = Ok(<<overrides[i][n]>>)
                  ELSE result[t].kind = "AttributeError"

\* level_values was assigned and then read: the read failed
C14_Witness ==
    \E t \in Threads :
        /\ FieldRead(t)
        /\ arg[t][2] = "level" /\ arg[t][3] = <<"values">>
        /\ Key("level", <<"values">>) \in DOMAIN overrides[arg[t][1]]
        /\ result[t].kind = "AttributeError"

\* C15: a step that changes an attribute of a class leaves the configuration
\* that each constructed instance uses for each command as it was.
C15_Snapshot ==
    [][klass' # klass =>
          \A i \in Instances, name \in CommandNames :
              special[i].has => ~Reconfigured(i, name)]_vars

\* the class attribute level_values was changed or added after an instance
\* was constructed and the instance does not use the new value
C15_Witness ==
    \E i \in Instances, cl \in ClassNames :
        LET n == Key("level", <<"values">>)
        IN /\ special[i].has
           /\ n \in DOMAIN klass[cl]
           /\ n \in DOMAIN snapshot[i][cl] => snapshot[i][cl][n] # klass[cl][n]
           /\ n \notin DOMAIN overrides[i]
           /\ Effective(i, "level").values # klass[cl][n]

\* the configuration a property read or write of the session runs with
Running(t) == Effective(Session, arg[t][1])

\* the call ended at once: nothing sent, the lock not taken
Unsupported(t) ==
    /\ pc[t] = "done"
    /\ result[t].kind = "UnsupportedOperation"
    /\ log[t] = <<>>
    /\ ~holds[t] /\ ~locked

\* C16: a read of a command whose effective read template is absent and a
\* write of a command whose effective write template is absent end with
\* UnsupportedOperation, whatever the value written and the validator, and
\* with nothing sent and the lock not taken.
C16_AbsentTemplate ==
    \A t \in Threads :
        /\ op[t] = "fget" /\ arg[t] # <<>> /\ Running(t).get_command = NoCommand
           => Unsupported(t)
        /\ op[t] = "fset" /\ arg[t] # <<>> /\ Running(t).set_command = NoCommand
           => Unsupported(t)

\* level was given a strict validator and no write template, and 12, which
\* the validator refuses, was written
C16_Witness ==
    \E t \in Threads :
        /\ op[t] = "fset" /\ arg[t] = <<"level", PyInt(12)>>
        /\ Running(t).set_command = NoCommand
        /\ Validated(Running(t), arg[t][2]).kind = "InvalidValue"
        /\ Unsupported(t)

\* C17: on an object with SCPI false a call of get_id, complete, options,
\* clear or reset has ended with UnsupportedDialect, no adapter call was
\* made for it, and the lock is free and not held, as it was before the call.
C17_UnsupportedDialect ==
    \A t \in Threads :
        op[t] \in BaseOps /\ ~SCPI =>
            /\ pc[t] = "done"
            /\ result[t].kind = "UnsupportedDialect"
            /\ log[t] = <<>>
            /\ ~holds[t] /\ ~locked

\* reset was called on an object with SCPI false
C17_Witness ==
    \E t \in Threads :
        /\ ~SCPI /\ op[t] = "reset"
        /\ pc[t] = "done" /\ result[t].kind = "UnsupportedDialect"

\* C18: when the get_id() of __init__ has returned a reply, __init__ completes
\* whatever the reply is, and communication_success tells whether the reply
\* starts with id_starts_with.
C18_ProbeNeverFails ==
    [][\A t \in Threads :
           pc[t] = "init_done" /\ pc'[t] # "init_done" /\ result[t].kind = "ok"
           => /\ sess' = "connected"
              /\ communication_success' =
                     startswith(strip(result[t].detail), id_starts_with)]_vars

\* a constructed session whose identification did not start with the prefix
C18_Witness == sess = "connected" /\ ~communication_success /\ isShutdown = "False"

\* C19: isShutdown is False in the step that completes __init__, and once it
\* is True every step leaves it True.
C19_ShutdownMonotonic ==
    [][/\ sess # "connected" /\ sess' = "connected" => isShutdown' = "False"
       /\ isShutdown = "True" => isShutdown' = "True"]_vars

\* after the shutdown of a left block: an override was written, then a write
\* transaction ran and ended, and the flag is True
C19_Witness ==
    \E t \in Threads :
        /\ block = "left" /\ edits > 0
        /\ op[t] = "write" /\ pc[t] = "done"
        /\ isShutdown = "True"

\* C20: after the `with` block over the session was left, at its end or by
\* an exception, isShutdown is True.
C20_BlockShutsDown == block \in {"left", "failed"} => isShutdown = "True"

\* the block was left by the exception of a call made in it
C20_Witness ==
    \E t \in Threads :
        /\ block = "failed" /\ isShutdown = "True"
        /\ pc[t] = "done" /\ result[t].kind = "CommunicationError"

\* C21: when SCPI is false __init__ does not call _flush_errors, so it is
\* never ended by the UnsupportedDialect that _flush_errors raises.
C21_FlushSkippedWithoutDialect ==
    \A t \in Threads :
        op[t] = "init" /\ ~SCPI =>
            ~(sess = "failed" /\ pc[t] = "done" /\ result[t].kind = "UnsupportedDialect")

\* C22: a status read that ended on a session whose communication_success is
\* still false asked the device for its identification and returned the
\* warning (had the reply started with id_starts_with, the flag would be true).
C22_FreshProbe ==
    \A t \in Threads :
        op[t] = "status" /\ pc[t] = "done" /\ ~communication_success =>
            /\ result[t] = Ok(<<"warning: Cannot communicate with device">>)
            /\ log[t] # <<>>

\* the other half of the claim holds: no step takes communication_success
\* from true to false
HealthKept == [][communication_success => communication_success']_vars

\* C23, as stated: a transaction that fails with Timeout has made no adapter
\* call but the *OPC? polls of the wait before its primitive, and no
\* transaction polls *OPC? after its primitive.
C23_TimeoutBeforePrimitive ==
    \A t \in Threads :
        op[t] \in CheckedTx =>
            /\ TimedOut(t) => Kinds(log[t]) = <<"opc">>
            /\ \A i, j \in 1 .. Len(log[t]) :
                   i < j /\ log[t][i].k = "prim" => log[t][j].k # "opc"

\* C23, amended: Timeout arises in a readiness wait only, and there are two:
\* the one before the primitive and the one with which the error drain
\* begins.  A transaction that fails with Timeout has ended in an *OPC? that
\* did not report complete, has made no error-queue query, and has either
\* not issued its primitive or issued it once.
C23_TimeoutInAWait ==
    \A t \in Threads :
        op[t] \in TxOps /\ TimedOut(t) =>
            /\ op[t] # "ask_nocheck"
            /\ Kinds(log[t]) \in {<<"opc">>, <<"opc", "prim", "opc">>}
            /\ ~Last(log[t]).r

\* a write that timed out after its command was sent
C23_Witness ==
    \E t \in Threads :
        /\ op[t] = "write" /\ TimedOut(t)
        /\ Kinds(log[t]) = <<"opc", "prim", "opc">>

\* C24: an ask made with check_for_errors false makes one adapter call, the
\* query, under the lock, and no *OPC? and no SYST:ERR?; it ends with the
\* reply of the adapter as its result or with the failure of the transport,
\* never with Timeout or CommunicationError, and it ends without the lock.
C24_UncheckedAsk ==
    \A t \in Threads :
        op[t] = "ask_nocheck" =>
            /\ pc[t] \in {"acquire", "prim", "exit", "done"}
            /\ IsPrefix(Kinds(log[t]), <<"prim">>)
            /\ \A i \in 1 .. Len(log[t]) : log[t][i].g
            /\ result[t].kind \in {"pending", "ok", "TransportError"}
            /\ pc[t] = "exit" /\ result[t].kind = "ok" =>
                  /\ Kinds(log[t]) = <<"prim">>
                  /\ result[t] = Ok(resp[t])
            /\ pc[t] = "done" => ~holds[t]
            /\ (pc[t] = "done" /\ result[t].kind = "ok") => result[t].detail \in Answers(op[t])

\* the ask returned its reply although the device holds an error in its queue
C24_Witness ==
    \E t \in Threads :
        /\ op[t] = "ask_nocheck" /\ pc[t] = "done"
        /\ result[t] = Ok(Data)
        /\ errq # <<>>

\* thread t is inside a call
Started(t) == pc[t] \notin {"idle", "done"}

AfterWait == {"prim", "drain"}

\* C26: a readiness wait returns only on an *OPC? that answered "1"; a turn of
\* its loop that got any other answer either sleeps the poll interval and
\* polls again, or raises TimeoutError with the deadline behind it.
C26_ReadyOnlyOnOne ==
    [][\A t \in Threads :
          pc[t] \in {"ready_pre", "ready_post"} /\ <<pc[t], elapsed[t], result[t]>>' # <<pc[t], elapsed[t], result[t]>> =>
              \/ /\ pc'[t] \in AfterWait
                 /\ Last(log'[t]).k = "opc" /\ Last(log'[t]).r
                 /\ result'[t] = result[t]
              \/ /\ pc'[t] = pc[t]
                 /\ Last(log'[t]).k = "opc" /\ ~Last(log'[t]).r
                 /\ elapsed'[t] > elapsed[t] /\ ~Expired(elapsed[t])
                 /\ result'[t] = result[t]
              \/ /\ result'[t].kind = "Timeout"
                 /\ pc'[t] = AfterCall(t)
                 /\ Last(log'[t]).k = "opc" /\ ~Last(log'[t]).r
                 /\ Expired(elapsed'[t])
              \/ result'[t].kind = "TransportError"]_vars

\* a wait whose *OPC? was not answered "1" has slept and is about to poll again
C26_Witness ==
    \E t \in Threads :
        /\ op[t] \in CheckedTx /\ pc[t] = "ready_pre" /\ holds[t]
        /\ elapsed[t] > 0 /\ ~Expired(elapsed[t])
        /\ Kinds(log[t]) = <<"opc">> /\ ~Last(log[t]).r

\* the classes, most-derived first, that had a class-level value for the
\* attribute n when instance i was constructed
DefinedIn(i, n) == {k \in 1 .. Len(mro) : n \in DOMAIN snapshot[i][mro[k]]}

\* C27: when more than one class of an instance's ancestry had a class-level
\* value for a field of an overridable command at construction, the instance
\* uses the value of the most-derived of them (until the field is assigned on
\* the instance).
C27_MostDerivedWins ==
    \A i \in Instances, name \in Overridable :
        special[i].has =>
            LET c == Effective(i, name)
            IN \A field \in dynamic_params :
                   LET n == Key(name, field)
                       first == CHOOSE k \in DefinedIn(i, n) : \A j \in DefinedIn(i, n) : k <= j
                   IN Cardinality(DefinedIn(i, n)) > 1 /\ n \notin DOMAIN overrides[i] =>
                          FieldOf(c, field) = snapshot[i][mro[first]][n]

\* what the instances do use: the value of the class that comes last in the
\* ancestry
C27_AncestorWins ==
    \A i \in Instances, name \in Overridable :
        special[i].has =>
            LET c == Effective(i, name)
            IN \A field \in dynamic_params :
                   LET n == Key(name, field)
                       last == CHOOSE k \in DefinedIn(i, n) : \A j \in DefinedIn(i, n) : k >= j
                   IN DefinedIn(i, n) # {} /\ n \notin DOMAIN overrides[i] =>
                          FieldOf(c, field) = snapshot[i][mro[last]][n]

\* the primitive of thread t's transaction put an error into the device's queue
QueuedByOwn(t) == \E k \in 1 .. Len(log[t]) : log[t][k].k = "prim" /\ ~log[t][k].r

\* C28: an error-checked transaction ends with CommunicationError only when
\* its own primitive made the device queue an error; errors that were in the
\* queue before do not make it fail.
C28_OwnErrorsOnly ==
    \A t \in Threads :
        op[t] \in CheckedTx /\ pc[t] = "exit" /\ result[t].kind = "CommunicationError" =>
            QueuedByOwn(t)

\* what does hold: the error reported is the first reply that the drain of the
\* same transaction read from the queue, whoever had it queued
C28_FirstDrained ==
    \A t \in Threads :
        op[t] \in CheckedTx /\ pc[t] = "exit" /\ result[t].kind = "CommunicationError" =>
            /\ seen[t] # <<>>
            /\ result[t].detail = seen[t][1]
            /\ Last(log[t]).k = "err"

====
